---- MODULE Spec2Model ----
(***************************************************************************)
(* A model of the tikplay command-line client (src/__main__.py).           *)
(*                                                                         *)
(* One behaviour is one invocation of the program: the command and its     *)
(* arguments are fixed by Init, Dispatch enters the command's routine and  *)
(* every other action is one step of that routine, from the return of one  *)
(* HTTP call to the issue of the next one (or to the routine's end).       *)
(*                                                                         *)
(* Strings the code takes apart (paths, digests, keys) are sequences of    *)
(* one-character strings, so that basename and rsplit are computed.        *)
(* Python dicts (the request body `data`, decoded JSON objects) are        *)
(* functions whose DOMAIN is the set of keys present; <<>> is the empty    *)
(* dict.                                                                   *)
(*                                                                         *)
(* The remote service is the environment: every call draws its outcome     *)
(* from the outcomes requests can produce.  Decoded objects keep the       *)
(* `text` member and carry `key` exactly when `saved` is true; `error`     *)
(* and `saved` may be absent.                                              *)
(***************************************************************************)
EXTENDS Integers, Sequences, FiniteSets, TLC

\* ------------------------------------------------------------------ bounds
MaxFiles == 2
MaxEntries == 2
MaxSecs == 7300

\* ------------------------------------------------------- the local machine
\* Paths that can be given on the command line.
PathA == <<"a", ".", "m">>
PathB == <<"d", "/", "b", ".", "m">>
PathC == <<"c">>
PathD == <<"d">>
PathU == <<"h", ":", "u">>

Names == {PathA, PathB, PathC, PathD, PathU}

\* os.path.exists(fn): files and directories exist, PathU names nothing.
exists(fn) == fn \in {PathA, PathB, PathC, PathD}

IsDir(fn) == fn = PathD

\* The bytes of each regular file: PathA and PathB hold the same bytes.
Content(fn) == IF fn = PathC THEN <<"y">> ELSE <<"x">>

Max(S) == CHOOSE x \in S : \A y \in S : y <= x

\* Index of the rightmost occurrence of ch in s, 0 when there is none.
LastIndexOf(s, ch) == Max({0} \cup {i \in 1..Len(s) : s[i] = ch})

\* os.path.basename(fn)
basename(fn) == SubSeq(fn, LastIndexOf(fn, "/") + 1, Len(fn))

\* fn.rsplit(".", 1)[-1]
rsplit_last(fn) == SubSeq(fn, LastIndexOf(fn, ".") + 1, Len(fn))

\* hashlib.sha1(bytes).hexdigest(), cut to its first two hex digits.
hexdigest(bytes) ==
    IF bytes = <<"x">> THEN <<"1", "1">>
    ELSE IF bytes = <<"y">> THEN <<"9", "5">>
    ELSE <<"d", "a">>

\* "sha1:" + sha1
Fingerprint(bytes) == <<"sha1:">> \o hexdigest(bytes)

whoami == "user@node"

\* -------------------------------------------------------------- format_time
format_time(secs0) ==
    LET hasH == secs0 > 3600
        hours == secs0 \div 3600
        secs1 == IF hasH THEN secs0 % 3600 ELSE secs0
        hasM == secs1 > 60
        minutes == secs1 \div 60
        secs2 == IF hasM THEN secs1 % 60 ELSE secs1
    IN  (IF hasH THEN <<[n |-> hours, u |-> "h"]>> ELSE <<>>)
        \o (IF hasM THEN <<[n |-> minutes, u |-> "m"]>> ELSE <<>>)
        \o <<[n |-> secs2, u |-> "s"]>>

\* ------------------------------------------------------------ the service
\* The key the service issues for stored bytes.
Keys == {<<"k", "1">>}

\* Decoded bodies of POST /song (also DELETE, whose body is printed as is).
SongJSON == {[text |-> "t"],
             [error |-> TRUE, text |-> "t"],
             [error |-> FALSE, text |-> "t"]}

\* Decoded bodies of POST /file.
FileJSON == {[text |-> "t"], [saved |-> FALSE, text |-> "t"]}
            \cup {[saved |-> TRUE, key |-> k, text |-> "t"] : k \in Keys}

Times == {45, 125, 3725}

\* Entries of a queue listing.
Entries == {[artist |-> "A", title |-> "T", time |-> t] : t \in Times}
           \cup {[artist |-> "A", title |-> "T"]}
           \cup {[file |-> "f", time |-> t] : t \in Times}
           \cup {[file |-> "f"], [title |-> "T"]}

SeqsUpTo(S, n) == UNION {[1..k -> S] : k \in 0..n}

\* Decoded bodies of GET /song and GET /queue/<n>.
ListJSON == {[text |-> l] : l \in SeqsUpTo(Entries, MaxEntries)}

\* What one call of a requests method can do: raise before a response
\* exists, or return a response whose body is JSON or not.
Outcomes(J) ==
    {[raised |-> e, valid |-> FALSE, json |-> <<>>] :
        e \in {"ConnectionError", "ValueError", "OtherError"}}
    \cup {[raised |-> "none", valid |-> FALSE, json |-> <<>>]}
    \cup {[raised |-> "none", valid |-> TRUE, json |-> j] : j \in J}

\* ------------------------------------------------------------ wrap_request
wrap_request_M(o) ==
    IF o.raised = "ConnectionError"
    THEN [exc |-> "none", none |-> TRUE, json |-> <<>>,
          out |-> <<[msg |-> "Connection error: "]>>]
    ELSE IF o.raised = "ValueError" \/ (o.raised = "none" /\ ~o.valid)
    THEN [exc |-> "ValueError", none |-> TRUE, json |-> <<>>,
          out |-> <<[msg |-> "An error occurred while constructing the request:"]>>]
    ELSE IF o.raised # "none"
    THEN [exc |-> o.raised, none |-> TRUE, json |-> <<>>, out |-> <<>>]
    ELSE [exc |-> "none", none |-> FALSE, json |-> o.json, out |-> <<>>]


wrap_request_Swallow(o) ==
    IF o.raised = "ConnectionError"
    THEN [exc |-> "none", none |-> TRUE, json |-> <<>>,
          out |-> <<[msg |-> "Connection error: "]>>]
    ELSE IF o.raised = "ValueError"
    THEN [exc |-> "none", none |-> TRUE, json |-> <<>>,
          out |-> <<[msg |-> "An error occurred while constructing the request:"]>>]
    ELSE IF o.raised # "none"
    THEN [exc |-> o.raised, none |-> TRUE, json |-> <<>>, out |-> <<>>]
    ELSE IF ~o.valid
    THEN [exc |-> "none", none |-> TRUE, json |-> <<>>,
          out |-> <<[msg |-> "Invalid JSON received: "]>>]
    ELSE [exc |-> "none", none |-> FALSE, json |-> o.json, out |-> <<>>]

\* The value wrap_request returns or the exception it lets escape, with the
\* lines it prints:  exc = "none" means it returned, none = TRUE means it
\* returned None.
wrap_request(o) ==
    IF o.raised = "ConnectionError"
    THEN [exc |-> "none", none |-> TRUE, json |-> <<>>,
          out |-> <<[msg |-> "Connection error: "]>>]
    ELSE IF o.raised = "ValueError"
    THEN [exc |-> "ValueError", none |-> TRUE, json |-> <<>>,
          out |-> <<[msg |-> "An error occurred while constructing the request:"]>>]
    ELSE IF o.raised # "none"
    THEN [exc |-> o.raised, none |-> TRUE, json |-> <<>>, out |-> <<>>]
    ELSE IF ~o.valid
    THEN [exc |-> "none", none |-> TRUE, json |-> <<>>,
          out |-> <<[msg |-> "Invalid JSON received: "]>>]
    ELSE [exc |-> "none", none |-> FALSE, json |-> o.json, out |-> <<>>]

send_post(o) == wrap_request(o)

send_get(o) == wrap_request(o)

send_delete(o) == wrap_request(o)

\* What the log keeps of a finished call: what the service did (raised,
\* valid) and what wrap_request made of it (st, json, printed).
Answer(o, w) == [st |-> IF w.exc # "none" THEN "raised"
                        ELSE IF w.none THEN "none" ELSE "json",
                 json |-> w.json,
                 printed |-> w.out,
                 raised |-> o.raised,
                 valid |-> o.valid]

Pending == [st |-> "pending", json |-> <<>>, printed |-> <<>>,
            raised |-> "none", valid |-> FALSE]

\* --------------------------------------------------------------- the state
VARIABLES
    cmd,      \* args.cmd
    files,    \* args.files
    verbose,  \* config["verbose"]
    pc,       \* where the invocation stands
    idx,      \* position of the for loop of send_song in files
    data,     \* the dict `data` of send_song
    song,     \* the file object `song` of send_song
    reqs,     \* every HTTP request issued so far, with its answer
    out,      \* everything printed so far
    exc       \* the exception that escaped, "none" while there is none

vars == <<cmd, files, verbose, pc, idx, data, song, reqs, out, exc>>

Cmds == {"play", "np", "playlist", "skip", "clear"}

\* -v is given: the invocation that prints the most.
Verbosity == {TRUE}

\* The argument lists of `play`: one to MaxFiles paths.  PathB, the second
\* name of PathA's bytes, is given only after PathA.
InputLists ==
    {l \in UNION {[1..k -> Names] : k \in 1..MaxFiles} :
        \A j \in 1..Len(l) : l[j] = PathB => \E i \in 1..(j - 1) : l[i] = PathA}

NoSong == [item |-> 0, pos |-> 0, open |-> FALSE]

Init ==
    /\ cmd \in Cmds
    /\ files \in IF cmd = "play" THEN InputLists ELSE {<<>>}
    /\ verbose \in Verbosity
    /\ pc = "start"
    /\ idx = 0
    /\ data = <<>>
    /\ song = NoSong
    /\ reqs = <<>>
    /\ out = <<>>
    /\ exc = "none"

\* The command dispatch of the main block.
Dispatch ==
    /\ pc = "start"
    /\ pc' = IF cmd = "play" THEN "loop" ELSE cmd
    /\ idx' = IF cmd = "play" THEN 1 ELSE idx
    /\ UNCHANGED <<cmd, files, verbose, data, song, reqs, out, exc>>

\* ---------------------------------------------------------------- send_song
Req(item, ep, body) == [item |-> item, ep |-> ep, body |-> body, res |-> Pending]

\* The last request of the log, answered.
Answered(o, w) == [reqs EXCEPT ![Len(reqs)].res = Answer(o, w)]

\* song.read(): the bytes from the cursor to the end of the file.
Read(fn, pos) == SubSeq(Content(fn), pos + 1, Len(Content(fn)))

Checking == IF verbose THEN <<[msg |-> "Checking filename/URI "]>> ELSE <<>>

Text(json) == [msg |-> "text", text |-> json.text]

Raise(e, printed) ==
    /\ pc' = "raised"
    /\ exc' = e
    /\ out' = out \o printed

\* The for loop is exhausted: send_song returns.
LoopEnd ==
    /\ pc' = "done"
    /\ UNCHANGED <<data, song, reqs, out, exc>>


UriItem_WithFilename(fn) ==
    /\ data' = [user |-> whoami, filename |-> basename(fn), url |-> fn]
    /\ reqs' = Append(reqs, Req(idx, "/song", data'))
    /\ out' = out \o Checking
    /\ pc' = "uri"
    /\ UNCHANGED <<song, exc>>

\* The item names nothing on disk: it is posted as a URI.
UriItem(fn) ==
    /\ data' = [user |-> whoami, url |-> fn]
    /\ reqs' = Append(reqs, Req(idx, "/song", data'))
    /\ out' = out \o Checking
    /\ pc' = "uri"
    /\ UNCHANGED <<song, exc>>

\* The item names a directory: open(fn, "rb") raises.
DirItem(fn) ==
    /\ data' = [user |-> whoami, filename |-> basename(fn)]
    /\ Raise("IsADirectoryError", Checking)
    /\ UNCHANGED <<song, reqs>>

\* The item names a file: it is opened, read and hashed, and the existence
\* check is posted.
FileItem(fn) ==
    /\ song' = [item |-> idx, pos |-> Len(Content(fn)), open |-> TRUE]
    /\ data' = [user |-> whoami, filename |-> basename(fn),
                url |-> Fingerprint(Read(fn, 0))]
    /\ reqs' = Append(reqs, Req(idx, "/song", data'))
    /\ out' = out \o Checking
    /\ pc' = "check"
    /\ UNCHANGED exc

\* The head of the for loop and the body up to the item's first POST /song.
NextItem ==
    /\ pc = "loop"
    /\ IF idx > Len(files) THEN LoopEnd
       ELSE IF ~exists(files[idx]) THEN UriItem(files[idx])
       ELSE IF IsDir(files[idx]) THEN DirItem(files[idx])
       ELSE FileItem(files[idx])
    /\ UNCHANGED <<cmd, files, verbose, idx>>

UriDone_Continue(w) ==
    /\ out' = out \o w.out \o (IF ~w.none THEN <<Text(w.json)>> ELSE <<>>)
    /\ idx' = idx + 1
    /\ pc' = "loop"
    /\ UNCHANGED exc

\* The text is printed if there is a result, and send_song returns.
UriDone(w) ==
    /\ out' = out \o w.out \o (IF ~w.none THEN <<Text(w.json)>> ELSE <<>>)
    /\ pc' = "done"
    /\ UNCHANGED <<idx, exc>>

\* The POST /song of a URI returns.
UriReturn ==
    /\ pc = "uri"
    /\ \E o \in Outcomes(SongJSON) :
        LET w == send_post(o) IN
        /\ reqs' = Answered(o, w)
        /\ IF w.exc # "none"
           THEN Raise(w.exc, w.out) /\ UNCHANGED idx
           ELSE UriDone(w)
    /\ UNCHANGED <<cmd, files, verbose, data, song>>

AlreadyKnown_M(w) == ~w.none /\ w.json.error

\* The condition under which send_song takes the file as already there.
AlreadyKnown(w) == ~w.none /\ ~w.json.error

CheckUnknown_Abandon(o, w) ==
    IF w.none
    THEN /\ out' = out \o w.out
         /\ reqs' = Answered(o, w)
         /\ idx' = idx + 1
         /\ pc' = "loop"
         /\ UNCHANGED <<song, exc>>
    ELSE /\ out' = out \o w.out
                   \o <<[msg |-> "File not found on the server, sending"]>>
         /\ reqs' = Append(Answered(o, w),
                           Req(idx, "/file",
                               [file |-> [name |-> <<"upload.">> \o rsplit_last(files[idx]),
                                          bytes |-> Read(files[idx], 0)]]))
         /\ song' = [song EXCEPT !.pos = Len(Content(files[idx]))]
         /\ pc' = "upload"
         /\ UNCHANGED <<idx, exc>>

\* No result, or error is true: the file is rewound and the upload issued.
CheckUnknown(o, w) ==
    /\ out' = out \o w.out
              \o <<[msg |-> "File not found on the server, sending"]>>
    /\ reqs' = Append(Answered(o, w),
                      Req(idx, "/file",
                          [file |-> [name |-> <<"upload.">> \o rsplit_last(files[idx]),
                                     bytes |-> Read(files[idx], 0)]]))
    /\ song' = [song EXCEPT !.pos = Len(Content(files[idx]))]
    /\ pc' = "upload"
    /\ UNCHANGED <<idx, exc>>

CheckKnown_FallThrough(o, w) ==
    /\ out' = out \o w.out \o <<Text(w.json)>>
              \o <<[msg |-> "File not found on the server, sending"]>>
    /\ reqs' = Append(Answered(o, w),
                      Req(idx, "/file",
                          [file |-> [name |-> <<"upload.">> \o rsplit_last(files[idx]),
                                     bytes |-> Read(files[idx], 0)]]))
    /\ song' = [song EXCEPT !.pos = Len(Content(files[idx]))]
    /\ pc' = "upload"
    /\ UNCHANGED <<idx, exc>>

\* The song is already there: its text is printed, the loop continues.
CheckKnown(o, w) ==
    /\ out' = out \o w.out \o <<Text(w.json)>>
    /\ reqs' = Answered(o, w)
    /\ idx' = idx + 1
    /\ pc' = "loop"
    /\ UNCHANGED <<song, exc>>

\* The existence check returns.
CheckReturn ==
    /\ pc = "check"
    /\ \E o \in Outcomes(SongJSON) :
        LET w == send_post(o) IN
        IF w.exc # "none"
        THEN /\ Raise(w.exc, w.out)
             /\ reqs' = Answered(o, w)
             /\ UNCHANGED <<idx, song>>
        ELSE IF ~w.none /\ "error" \notin DOMAIN w.json
        THEN /\ Raise("KeyError", w.out)
             /\ reqs' = Answered(o, w)
             /\ UNCHANGED <<idx, song>>
        ELSE IF AlreadyKnown(w) THEN CheckKnown(o, w)
        ELSE CheckUnknown(o, w)
    /\ UNCHANGED <<cmd, files, verbose, data>>

\* "saved" not in result or not result["saved"]
NotSaved(json) == "saved" \notin DOMAIN json \/ ~json.saved

WithKey_Unchanged(d, json) == d

\* data["url"] = result["key"]
WithKey(d, json) == [d EXCEPT !.url = json.key]


UploadNoResult_RetryOnce(o, w) ==
    IF Len(SelectSeq(reqs, LAMBDA r : r.item = idx /\ r.ep = "/file")) = 1
    THEN /\ out' = out \o w.out
         /\ reqs' = Append(Answered(o, w),
                           Req(idx, "/file", reqs[Len(reqs)].body))
         /\ pc' = "upload"
         /\ UNCHANGED <<idx, data, exc>>
    ELSE /\ out' = out \o w.out
         /\ reqs' = Answered(o, w)
         /\ idx' = idx + 1
         /\ pc' = "loop"
         /\ UNCHANGED <<data, exc>>

\* The upload obtained no result: nothing more is done for the item.
UploadNoResult(o, w) ==
    /\ out' = out \o w.out
    /\ reqs' = Answered(o, w)
    /\ idx' = idx + 1
    /\ pc' = "loop"
    /\ UNCHANGED <<data, exc>>

UploadNotSaved_Enqueue(o, w) ==
    /\ out' = out \o <<[msg |-> "Error, file not saved: ", text |-> w.json.text]>>
    /\ reqs' = Append(Answered(o, w), Req(idx, "/song", data))
    /\ pc' = "enqueue"
    /\ UNCHANGED <<idx, data, exc>>


UploadNotSaved_Silent(o, w) ==
    /\ out' = out
    /\ reqs' = Answered(o, w)
    /\ pc' = "done"
    /\ UNCHANGED <<idx, data, exc>>

\* The file was not saved: the message is printed and send_song returns.
UploadNotSaved(o, w) ==
    /\ out' = out \o <<[msg |-> "Error, file not saved: ", text |-> w.json.text]>>
    /\ reqs' = Answered(o, w)
    /\ pc' = "done"
    /\ UNCHANGED <<idx, data, exc>>



UploadSaved_FireAndForget(o, w) ==
    /\ out' = out \o <<[msg |-> "File sent successfully, adding to playlist"]>>
    /\ data' = WithKey(data, w.json)
    /\ reqs' = Append(Answered(o, w), Req(idx, "/song", data'))
    /\ idx' = idx + 1
    /\ pc' = "loop"
    /\ UNCHANGED exc

UploadSaved_PostBeforeUpdate(o, w) ==
    /\ out' = out \o <<[msg |-> "File sent successfully, adding to playlist"]>>
    /\ data' = WithKey(data, w.json)
    /\ reqs' = Append(Answered(o, w), Req(idx, "/song", data))
    /\ pc' = "enqueue"
    /\ UNCHANGED <<idx, exc>>

\* The file was saved: the key replaces the fingerprint, the enqueue is issued.
UploadSaved(o, w) ==
    /\ out' = out \o <<[msg |-> "File sent successfully, adding to playlist"]>>
    /\ data' = WithKey(data, w.json)
    /\ reqs' = Append(Answered(o, w), Req(idx, "/song", data'))
    /\ pc' = "enqueue"
    /\ UNCHANGED <<idx, exc>>

\* The upload returns.
UploadReturn ==
    /\ pc = "upload"
    /\ \E o \in Outcomes(FileJSON) :
        LET w == send_post(o) IN
        IF w.exc # "none"
        THEN /\ Raise(w.exc, w.out)
             /\ reqs' = Answered(o, w)
             /\ UNCHANGED <<idx, data>>
        ELSE IF w.none THEN UploadNoResult(o, w)
        ELSE IF NotSaved(w.json) THEN UploadNotSaved(o, w)
        ELSE UploadSaved(o, w)
    /\ UNCHANGED <<cmd, files, verbose, song>>

EnqueueDone_Return(w) ==
    /\ out' = out \o w.out \o (IF ~w.none THEN <<Text(w.json)>> ELSE <<>>)
    /\ pc' = "done"
    /\ UNCHANGED <<idx, exc>>

\* The text is printed if there is a result; the loop goes on.
EnqueueDone(w) ==
    /\ out' = out \o w.out \o (IF ~w.none THEN <<Text(w.json)>> ELSE <<>>)
    /\ idx' = idx + 1
    /\ pc' = "loop"
    /\ UNCHANGED exc

\* The enqueue of the uploaded file returns.
EnqueueReturn ==
    /\ pc = "enqueue"
    /\ \E o \in Outcomes(SongJSON) :
        LET w == send_post(o) IN
        /\ reqs' = Answered(o, w)
        /\ IF w.exc # "none"
           THEN Raise(w.exc, w.out) /\ UNCHANGED idx
           ELSE EnqueueDone(w)
    /\ UNCHANGED <<cmd, files, verbose, data, song>>

\* ------------------------------------------------------- the other commands
Call(ep, o, w) ==
    Append(reqs, [item |-> 0, ep |-> ep, body |-> <<>>, res |-> Answer(o, w)])

send_np ==
    /\ pc = "np"
    /\ \E o \in Outcomes(ListJSON) :
        LET w == send_get(o) IN
        /\ reqs' = Call("GET /song", o, w)
        /\ IF w.exc # "none"
           THEN Raise(w.exc, w.out)
           ELSE IF w.none
           THEN Raise("TypeError", w.out)
           ELSE IF Len(w.json.text) = 0
           THEN Raise("IndexError", w.out)
           ELSE IF ~({"artist", "title", "time"} \subseteq DOMAIN w.json.text[1])
           THEN Raise("KeyError", w.out)
           ELSE /\ out' = out \o <<[msg |-> "Now playing: ",
                                    artist |-> w.json.text[1].artist,
                                    title |-> w.json.text[1].title,
                                    time |-> w.json.text[1].time]>>
                /\ pc' = "done"
                /\ UNCHANGED exc
    /\ UNCHANGED <<cmd, files, verbose, idx, data, song>>

song_name(res) ==
    IF {"artist", "title"} \subseteq DOMAIN res
    THEN <<res.artist, " - ", res.title>>
    ELSE IF "file" \in DOMAIN res THEN <<res.file>>
    ELSE <<"unknown">>

time_part(res) == IF "time" \in DOMAIN res THEN format_time(res.time) ELSE <<>>

QueueLines(l) ==
    [i \in 1..Len(l) |-> [msg |-> "Queue #", i |-> i - 1,
                          name |-> song_name(l[i]), time |-> time_part(l[i])]]

\* send_playlist, for a service whose listings are drawn from J.
playlist_with(J) ==
    /\ pc = "playlist"
    /\ \E o \in Outcomes(J) :
        LET w == send_get(o) IN
        /\ reqs' = Call("GET /queue", o, w)
        /\ IF w.exc # "none"
           THEN Raise(w.exc, w.out)
           ELSE /\ out' = out \o w.out
                          \o (IF ~w.none THEN QueueLines(w.json.text) ELSE <<>>)
                /\ pc' = "done"
                /\ UNCHANGED exc
    /\ UNCHANGED <<cmd, files, verbose, idx, data, song>>

send_playlist == playlist_with(ListJSON)

\* print(result): the decoded body, or None.
Printed(w) == [msg |-> "result", none |-> w.none, json |-> w.json]

send_skip ==
    /\ pc = "skip"
    /\ \E o \in Outcomes(SongJSON) :
        LET w == send_delete(o) IN
        /\ reqs' = Call("DELETE /song", o, w)
        /\ IF w.exc # "none"
           THEN Raise(w.exc, w.out)
           ELSE /\ out' = out \o w.out \o <<Printed(w)>>
                /\ pc' = "done"
                /\ UNCHANGED exc
    /\ UNCHANGED <<cmd, files, verbose, idx, data, song>>

send_clear ==
    /\ pc = "clear"
    /\ \E o \in Outcomes(SongJSON) :
        LET w == send_delete(o) IN
        /\ reqs' = Call("DELETE /queue", o, w)
        /\ IF w.exc # "none"
           THEN Raise(w.exc, w.out)
           ELSE /\ out' = out \o w.out \o <<Printed(w)>>
                /\ pc' = "done"
                /\ UNCHANGED exc
    /\ UNCHANGED <<cmd, files, verbose, idx, data, song>>

Next ==
    \/ Dispatch
    \/ NextItem
    \/ UriReturn
    \/ CheckReturn
    \/ UploadReturn
    \/ EnqueueReturn
    \/ send_np
    \/ send_playlist
    \/ send_skip
    \/ send_clear

Spec == Init /\ [][Next]_vars

TypeOK ==
    /\ pc \in {"start", "loop", "uri", "check", "upload", "enqueue",
               "np", "playlist", "skip", "clear", "done", "raised"}
    /\ (pc = "raised") = (exc # "none")
    /\ idx \in 0..(Len(files) + 1)

\* ------------------------------------------------------ reading the request log
Items == 1..Len(files)

IsFileItem(i) == exists(files[i]) /\ ~IsDir(files[i])

IsUriItem(i) == ~exists(files[i])

\* The requests issued for item i, in order.
ItemReqs(i) == SelectSeq(reqs, LAMBDA r : r.item = i)

NoResult(res) == res.st = "none"

GotResult(res) == res.st = "json"

ErrorIs(res, b) ==
    /\ res.st = "json"
    /\ "error" \in DOMAIN res.json
    /\ res.json.error = b

SavedTrue(res) ==
    /\ res.st = "json"
    /\ "saved" \in DOMAIN res.json
    /\ res.json.saved

NotSavedAnswer(res) == res.st = "json" /\ ~SavedTrue(res)

IsUpload(k) == reqs[k].ep = "/file"

Printed_msg(m) == \E k \in 1..Len(out) : out[k].msg = m

\* ---------------------------------------------------------------------- C1
\* C1: a file item whose existence check is answered with error == false
\* has that check as its only request (no POST /file, no further POST /song)
\* and the loop has moved past it.
C1_KnownIsNotUploaded ==
    \A i \in Items :
        LET R == ItemReqs(i) IN
        (IsFileItem(i) /\ Len(R) >= 1 /\ ErrorIs(R[1].res, FALSE))
        => (Len(R) = 1 /\ idx > i)

C1_Witness ==
    \E i \in Items :
        /\ IsFileItem(i)
        /\ Len(ItemReqs(i)) = 1
        /\ ErrorIs(ItemReqs(i)[1].res, FALSE)
        /\ \E j \in Items : j > i /\ Len(ItemReqs(j)) >= 1

\* ---------------------------------------------------------------------- C2
\* C2 as stated: every file item whose existence check reports error == true
\* has, once send_song is done with it, exactly one upload followed by
\* exactly one enqueue carrying the key.
C2_Original ==
    \A i \in Items :
        LET R == ItemReqs(i) IN
        (IsFileItem(i) /\ Len(R) >= 1 /\ ErrorIs(R[1].res, TRUE)
            /\ (idx > i \/ pc = "done"))
        => (/\ Len(R) = 3
            /\ R[2].ep = "/file"
            /\ SavedTrue(R[2].res)
            /\ R[3].ep = "/song"
            /\ R[3].body.url = R[2].res.json.key)

\* C2 amended: a file item whose existence check reports error == true gets
\* exactly one upload right after the check; an enqueue follows exactly when
\* that upload is answered saved == true, there is one only, and its url is
\* the key of that answer and not the fingerprint.
C2_UploadThenEnqueueIfSaved ==
    \A i \in Items :
        LET R == ItemReqs(i) IN
        (IsFileItem(i) /\ Len(R) >= 1 /\ ErrorIs(R[1].res, TRUE))
        => (/\ Len(R) \in {2, 3}
            /\ R[2].ep = "/file"
            /\ R[2].body.file.bytes = Content(files[i])
            /\ (Len(R) = 3) = SavedTrue(R[2].res)
            /\ Len(R) = 3 =>
                /\ R[3].ep = "/song"
                /\ R[3].body.url = R[2].res.json.key
                /\ R[3].body.url # R[1].body.url
                /\ R[3].body.filename = R[1].body.filename)

C2_Witness ==
    \E i \in Items :
        LET R == ItemReqs(i) IN
        /\ IsFileItem(i)
        /\ Len(R) = 3
        /\ ErrorIs(R[1].res, TRUE)
        /\ SavedTrue(R[2].res)
        /\ GotResult(R[3].res)

\* ---------------------------------------------------------------------- C3
\* C3: after an upload that obtained no result, or whose answer has saved
\* false or absent, no request at all is issued for the same item.
C3_NothingAfterFailedUpload ==
    \A k \in 1..Len(reqs) :
        (IsUpload(k) /\ (NoResult(reqs[k].res) \/ NotSavedAnswer(reqs[k].res)))
        => \A m \in (k + 1)..Len(reqs) : reqs[m].item # reqs[k].item

C3_Witness ==
    \E k \in 1..Len(reqs) :
        /\ IsUpload(k)
        /\ NoResult(reqs[k].res)
        /\ k < Len(reqs)

\* ---------------------------------------------------------------------- C4
\* The existence check of a file item: the first request issued for it.
IsCheck(j) ==
    /\ reqs[j].ep = "/song"
    /\ "filename" \in DOMAIN reqs[j].body
    /\ (j = 1 \/ reqs[j - 1].item # reqs[j].item)

\* The service of C4: every answered existence check for a fingerprint whose
\* bytes an earlier upload was answered saved == true for says error == false.
ServerKnowsSaved ==
    \A j \in 1..Len(reqs) :
        (/\ IsCheck(j)
         /\ GotResult(reqs[j].res)
         /\ \E i \in 1..(j - 1) :
                /\ IsUpload(i)
                /\ SavedTrue(reqs[i].res)
                /\ Fingerprint(reqs[i].body.file.bytes) = reqs[j].body.url)
        => ErrorIs(reqs[j].res, FALSE)

SameBytesTwice(i, j) ==
    /\ i < j
    /\ IsUpload(i)
    /\ IsUpload(j)
    /\ reqs[i].item # reqs[j].item
    /\ reqs[i].body.file.bytes = reqs[j].body.file.bytes

\* C4 as stated: against such a service no two items with the same bytes
\* both cause a POST /file.
C4_Original ==
    ServerKnowsSaved =>
        \A i, j \in 1..Len(reqs) : ~SameBytesTwice(i, j)

\* C4 amended: against such a service two items with the same bytes both
\* cause a POST /file only if the earlier upload obtained no result or the
\* later item's existence check (the request just before its upload) obtained
\* no result.
C4_NoSecondUploadOfSavedBytes ==
    ServerKnowsSaved =>
        \A i, j \in 1..Len(reqs) :
            SameBytesTwice(i, j)
            => \/ NoResult(reqs[i].res)
               \/ /\ IsCheck(j - 1)
                  /\ reqs[j - 1].item = reqs[j].item
                  /\ NoResult(reqs[j - 1].res)

C4_Witness ==
    /\ ServerKnowsSaved
    /\ \E i \in 1..Len(reqs) : \E n \in Items :
        /\ IsUpload(i)
        /\ SavedTrue(reqs[i].res)
        /\ n > reqs[i].item
        /\ IsFileItem(n)
        /\ Content(files[n]) = reqs[i].body.file.bytes
        /\ Len(ItemReqs(n)) = 1
        /\ ErrorIs(ItemReqs(n)[1].res, FALSE)
        /\ idx > n

\* ---------------------------------------------------------------------- C5
\* C5: when send_song has returned, every input that no URI precedes has
\* been processed, whatever recoverable failures the earlier items met.
C5_LaterItemsProcessed ==
    pc = "done" =>
        \A j \in Items :
            (\A i \in 1..(j - 1) : IsFileItem(i)) => Len(ItemReqs(j)) >= 1

\* ---------------------------------------------------------------------- C6
\* C6: once a URI item has been posted no request is issued for a later
\* input, the URI has that one request only, and when it came back with or
\* without a result send_song has returned.
C6_ReturnAfterUri ==
    \A i \in Items :
        (IsUriItem(i) /\ Len(ItemReqs(i)) >= 1)
        => (/\ \A k \in 1..Len(reqs) : reqs[k].item <= i
            /\ Len(ItemReqs(i)) = 1
            /\ ItemReqs(i)[1].res.st \in {"none", "json"} => (pc = "done" /\ idx = i))

C6_Witness ==
    \E i \in Items :
        /\ IsUriItem(i)
        /\ i < Len(files)
        /\ Len(ItemReqs(i)) = 1
        /\ NoResult(ItemReqs(i)[1].res)
        /\ pc = "done"

\* ---------------------------------------------------------------------- C7
\* The input list [F, U] with F's check answered error == true and its
\* upload answered saved == true.
FileThenUri ==
    /\ cmd = "play"
    /\ Len(files) = 2
    /\ IsFileItem(1)
    /\ IsUriItem(2)
    /\ Len(ItemReqs(1)) >= 2
    /\ ErrorIs(ItemReqs(1)[1].res, TRUE)
    /\ SavedTrue(ItemReqs(1)[2].res)

\* C7 as stated: after upload(F) and enqueue(key) no request is issued for U.
C7_Original ==
    FileThenUri =>
        /\ Len(ItemReqs(1)) = 3
        /\ ItemReqs(1)[3].body.url = ItemReqs(1)[2].res.json.key
        /\ Len(ItemReqs(2)) = 0

\* C7 amended: for [F, U] send_song performs upload(F) then enqueue(key), and
\* when that enqueue has come back (with or without a result) it goes on to
\* the second input and issues exactly one POST /song {user, url: U} for it.
C7_UriAfterFileIsPosted ==
    FileThenUri =>
        LET R == ItemReqs(1) IN
        /\ Len(R) = 3
        /\ R[2].ep = "/file"
        /\ R[3].ep = "/song"
        /\ R[3].body.url = R[2].res.json.key
        /\ (R[3].res.st \in {"none", "json"} /\ pc # "loop")
            => /\ Len(ItemReqs(2)) = 1
               /\ ItemReqs(2)[1].ep = "/song"
               /\ ItemReqs(2)[1].body = [user |-> whoami, url |-> files[2]]

C7_Witness ==
    /\ FileThenUri
    /\ Len(ItemReqs(1)) = 3
    /\ GotResult(ItemReqs(1)[3].res)
    /\ Len(ItemReqs(2)) = 1
    /\ pc = "done"

C9_CommandsSurviveRefusal ==
    (cmd # "play" /\ Len(reqs) = 1 /\ reqs[1].res.raised = "ConnectionError")
    => (pc = "done" /\ exc = "none" /\ Printed_msg("Connection error: "))

\* --------------------------------------------------------------------- C10
\* C10: for a call that ended in a connection error and for a response whose
\* body is not JSON, wrap_request returned None (it did not raise) and
\* printed the matching diagnostic.
C10_RecoverableReturnsNone ==
    \A k \in 1..Len(reqs) :
        LET r == reqs[k].res IN
        r.st # "pending" =>
            /\ r.raised = "ConnectionError"
                => /\ r.st = "none"
                   /\ r.printed = <<[msg |-> "Connection error: "]>>
                   /\ Printed_msg("Connection error: ")
            /\ (r.raised = "none" /\ ~r.valid)
                => /\ r.st = "none"
                   /\ r.printed = <<[msg |-> "Invalid JSON received: "]>>
                   /\ Printed_msg("Invalid JSON received: ")

C10_Witness ==
    \E k, m \in 1..Len(reqs) :
        /\ reqs[k].res.st = "none"
        /\ reqs[k].res.raised = "ConnectionError"
        /\ reqs[m].res.st = "none"
        /\ reqs[m].res.raised = "none"
        /\ ~reqs[m].res.valid

\* --------------------------------------------------------------------- C11
\* C11: a ValueError raised by the requests method before any response
\* exists is not swallowed: wrap_request lets it escape (it does not return
\* None), the invocation ends with that exception and no further request is
\* issued.
C11_ConstructionErrorPropagates ==
    \A k \in 1..Len(reqs) :
        (reqs[k].res.st # "pending" /\ reqs[k].res.raised = "ValueError")
        => (/\ reqs[k].res.st = "raised"
            /\ k = Len(reqs)
            /\ pc = "raised"
            /\ exc = "ValueError"
            /\ Printed_msg("An error occurred while constructing the request:"))

C11_Witness ==
    \E k \in 1..Len(reqs) :
        /\ k > 1
        /\ reqs[k].res.raised = "ValueError"
        /\ reqs[k].res.st = "raised"
        /\ exc = "ValueError"

\* --------------------------------------------------------------------- C12
FpOf(i) == Fingerprint(Content(files[i]))

\* The url every POST /song of a file item carries: the fingerprint until an
\* upload of the item is answered saved, that answer's key afterwards; and
\* the url `data` holds while the item is in hand.
ContentRefOK ==
    \A i \in Items :
        IsFileItem(i) =>
            LET R == ItemReqs(i)
                savedAt == {m \in 1..Len(R) : R[m].ep = "/file" /\ SavedTrue(R[m].res)}
            IN
            /\ \A k \in 1..Len(R) :
                R[k].ep = "/song" =>
                    IF \E m \in savedAt : m < k
                    THEN /\ \A m \in savedAt : R[k].body.url = R[m].res.json.key
                         /\ R[k].body.url # FpOf(i)
                    ELSE R[k].body.url = FpOf(i)
            /\ (idx = i /\ pc \in {"check", "upload", "enqueue"})
                => data.url = IF savedAt = {} THEN FpOf(i) ELSE R[Len(R)].body.url

\* Within one item the url changes only from the fingerprint to a key.
ContentRefStep ==
    (pc # "loop" /\ idx' = idx /\ "url" \in DOMAIN data /\ "url" \in DOMAIN data'
        /\ data'.url # data.url)
    => (/\ IsFileItem(idx)
        /\ data.url = FpOf(idx)
        /\ data'.url \in Keys)

\* C12: for every file item data["url"] is the "sha1:" fingerprint before a
\* saved upload and the issued key after it; it changes at most once, from
\* fingerprint to key, never back, and every request sent after the change
\* carries the key.
C12_ContentRefChangesOnce == [][ContentRefOK' /\ ContentRefStep]_vars

C12_Witness ==
    \E i \in Items :
        LET R == ItemReqs(i) IN
        /\ IsFileItem(i)
        /\ Len(R) = 3
        /\ R[1].body.url = FpOf(i)
        /\ R[3].body.url \in Keys
        /\ data.url = R[3].body.url
        /\ NoResult(R[3].res)

\* --------------------------------------------------------------------- C13
\* C13: the handle of a file item is open only while that item is in hand:
\* it is closed when the next item starts and when send_song has returned.
C13_HandleReleased ==
    (song.open /\ pc # "raised")
    => (idx = song.item /\ pc \in {"check", "upload", "enqueue"})

\* --------------------------------------------------------------------- C14
\* Listings of one entry whose time is any whole number of seconds.
TimedJSON == {[text |-> <<[file |-> "f", time |-> t]>>] : t \in 0..MaxSecs}

\* send_playlist against a service that answers with such a listing.
playlist_timed == playlist_with(TimedJSON)

InitFT == Init /\ cmd = "playlist"

NextFT ==
    \/ Dispatch
    \/ playlist_timed

\* The playlist command alone, over every time value of the range.
SpecFT == InitFT /\ [][NextFT]_vars

\* Hours, minutes and seconds of s, without the leading zero-valued units.
HMS(s) ==
    LET h == s \div 3600
        m == (s % 3600) \div 60
        sec == s % 60
    IN  IF h > 0
        THEN <<[n |-> h, u |-> "h"], [n |-> m, u |-> "m"], [n |-> sec, u |-> "s"]>>
        ELSE IF m > 0
        THEN <<[n |-> m, u |-> "m"], [n |-> sec, u |-> "s"]>>
        ELSE <<[n |-> sec, u |-> "s"]>>

\* C14: every time of a listing is printed as its hours/minutes/seconds
\* decomposition (minutes and seconds below 60), only leading zero-valued
\* units left out; 125 is printed as "2m 5s".
C14_TimeIsDecomposed ==
    (cmd = "playlist" /\ pc = "done" /\ Len(reqs) = 1 /\ GotResult(reqs[1].res))
    => /\ HMS(125) = <<[n |-> 2, u |-> "m"], [n |-> 5, u |-> "s"]>>
       /\ \A i \in 1..Len(reqs[1].res.json.text) :
            "time" \in DOMAIN reqs[1].res.json.text[i]
            => out[i].time = HMS(reqs[1].res.json.text[i].time)

\* --------------------------------------------------------------------- C15
\* C15: a file item whose existence check is answered by an object without
\* an `error` member is taken as known: nothing is raised, the check is its
\* only request and the loop moves on.
C15_AbsentErrorIsSuccess ==
    \A i \in Items :
        LET R == ItemReqs(i) IN
        (IsFileItem(i) /\ Len(R) >= 1 /\ GotResult(R[1].res)
            /\ "error" \notin DOMAIN R[1].res.json)
        => (Len(R) = 1 /\ idx > i)

\* --------------------------------------------------------------------- C16
NotSavedMsg == "Error, file not saved: "

\* C16 as stated: every upload that ended without the file saved, with no
\* result or with saved false or absent, has the "Error, file not saved"
\* line printed.
C16_Original ==
    \A k \in 1..Len(reqs) :
        (IsUpload(k) /\ (NoResult(reqs[k].res) \/ NotSavedAnswer(reqs[k].res)))
        => Printed_msg(NotSavedMsg)

\* C16 amended: an upload answered by a result whose saved is false or absent
\* has "Error, file not saved: <text>" printed with the text of the answer;
\* an upload that obtained no result has no such line, only the diagnostic
\* of wrap_request.
C16_NotSavedIsReported ==
    /\ \A k \in 1..Len(reqs) :
        (IsUpload(k) /\ NotSavedAnswer(reqs[k].res))
        => \E j \in 1..Len(out) :
            /\ out[j].msg = NotSavedMsg
            /\ out[j].text = reqs[k].res.json.text
    /\ \A j \in 1..Len(out) :
        out[j].msg = NotSavedMsg
        => /\ \E k \in 1..Len(reqs) : IsUpload(k) /\ NotSavedAnswer(reqs[k].res)
           /\ \A n \in 1..Len(out) : out[n].msg = NotSavedMsg => n = j
    /\ \A k \in 1..Len(reqs) :
        (IsUpload(k) /\ NoResult(reqs[k].res))
        => /\ Len(reqs[k].res.printed) = 1
           /\ Printed_msg(reqs[k].res.printed[1].msg)

C16_Witness ==
    \E k \in 1..Len(reqs) :
        /\ IsUpload(k)
        /\ GotResult(reqs[k].res)
        /\ "saved" \notin DOMAIN reqs[k].res.json
        /\ Printed_msg(NotSavedMsg)

\* --------------------------------------------------------------------- C17
\* C17: a URI item that the loop has reached has exactly one request, a
\* POST /song whose body is {user, url: the input} with no filename; no
\* POST /file and no second POST, whatever the outcome.
C17_UriPostedOnce ==
    \A i \in Items :
        (IsUriItem(i) /\ idx = i /\ pc # "loop")
        => (/\ Len(ItemReqs(i)) = 1
            /\ ItemReqs(i)[1].ep = "/song"
            /\ DOMAIN ItemReqs(i)[1].body = {"user", "url"}
            /\ ItemReqs(i)[1].body.user = whoami
            /\ ItemReqs(i)[1].body.url = files[i]
            /\ \A k \in 1..Len(reqs) : reqs[k].item = i => reqs[k].ep # "/file")

C17_Witness ==
    \E i \in Items :
        /\ IsUriItem(i)
        /\ i > 1
        /\ Len(ItemReqs(i)) = 1
        /\ ErrorIs(ItemReqs(i)[1].res, TRUE)
        /\ pc = "done"

\* --------------------------------------------------------------------- C18
\* C18: a file item has at most one POST /file and at most two POST /song,
\* at most one of them with the fingerprint and at most one with a key, and
\* no two of its requests have the same endpoint and the same payload.
C18_NoRetry ==
    \A i \in Items :
        IsFileItem(i) =>
            \A R \in {ItemReqs(i)} :
                /\ Len(SelectSeq(R, LAMBDA r : r.ep = "/song")) <= 2
                /\ \A k, m \in 1..Len(R) :
                    k < m =>
                        /\ ~(R[k].ep = "/file" /\ R[m].ep = "/file")
                        /\ ~(R[k].ep = "/song" /\ R[m].ep = "/song"
                             /\ R[k].body.url = FpOf(i) /\ R[m].body.url = FpOf(i))
                        /\ ~(R[k].ep = "/song" /\ R[m].ep = "/song"
                             /\ R[k].body.url \in Keys /\ R[m].body.url \in Keys)
                        /\ ~(R[k].ep = R[m].ep /\ R[k].body = R[m].body)

C18_Witness ==
    \E i \in Items :
        LET R == ItemReqs(i) IN
        /\ IsFileItem(i)
        /\ Len(R) = 3
        /\ NoResult(R[1].res)
        /\ SavedTrue(R[2].res)
        /\ ErrorIs(R[3].res, TRUE)
        /\ idx > i

\* --------------------------------------------------------------------- C19
\* Every HTTP call returns and the code between two calls runs: a step that
\* is possible is eventually taken.
SpecLive == Spec /\ WF_vars(Next)

\* The log is in list order: the items of successive requests never
\* decrease, none is ahead of the loop, and a request is issued only when
\* every earlier one has returned.
InListOrder ==
    /\ \A k \in 1..Len(reqs) : reqs[k].item <= idx
    /\ \A k \in 1..(Len(reqs) - 1) :
        /\ reqs[k].item <= reqs[k + 1].item
        /\ reqs[k].res.st # "pending"

\* The loop position never goes back, and the loop head is re-entered only
\* with the next position.
Forward ==
    /\ idx' >= idx
    /\ (pc' = "loop" /\ pc # "start") => idx' = idx + 1

\* C19: every invocation ends (send_song returns or an exception escapes);
\* until then the inputs are handled in list order, each at most once, and
\* no request is issued before the previous one has returned.
C19_TerminatesInOrder ==
    /\ <>(pc \in {"done", "raised"})
    /\ [][InListOrder' /\ Forward]_vars

C19_Witness ==
    /\ cmd = "play"
    /\ pc = "done"
    /\ Len(files) >= 2
    /\ idx = Len(files) + 1
    /\ \A i \in Items : Len(ItemReqs(i)) >= 2
====
